---- MODULE Spec2Model ----
\* Verification model of the trainer of KeplerCoder/NeuralNetwork:
\* MachineLearning (machine_learning.py) on top of Data (data.py).
\*
\* Numbers.  The program computes with Python floats.  The model computes with
\* exact rationals <<numerator, denominator>> (denominator > 0, lowest terms),
\* so "a - b * c" in the model is the value the Python expression denotes
\* without rounding.  Python lists are 0-based, TLA+ sequences 1-based: index
\* j of the source is index j + 1 of the model.
EXTENDS Integers, Sequences, FiniteSets, TLC

\* ---------------------------------------------------------------------------
\* Bounds of the model
\* ---------------------------------------------------------------------------
\* largest `epochs` argument of train / train_layers_on_dataset
MaxEpochs == 7
\* largest epoch / epochs argument of a direct _calculate_learning_decay call
MaxDecayEpochs == 9
\* largest number of neurons of a layer handed to a direct update_weights call
MaxNeurons == 2
\* largest input dimension of a layer handed to a direct update_weights call
MaxInputs == 2
\* largest |data_number| of a direct get_data_sample /
\* get_normalized_target_value call
MaxDataNumber == 3

\* ---------------------------------------------------------------------------
\* Exact rational arithmetic (the float operators of the source)
\* ---------------------------------------------------------------------------
Abs(n) == IF n < 0 THEN -n ELSE n

RECURSIVE GCD(_, _)
GCD(a, b) == IF b = 0 THEN a ELSE GCD(b, a % b)

\* n / d in lowest terms with a positive denominator (d # 0)
Frac(n, d) ==
    LET g == GCD(Abs(n), Abs(d))
        s == IF d < 0 THEN -1 ELSE 1
    IN  << (s * n) \div g, (s * d) \div g >>

R(n) == << n, 1 >>
Zero == R(0)
RAdd(a, b) == Frac(a[1] * b[2] + b[1] * a[2], a[2] * b[2])
RSub(a, b) == Frac(a[1] * b[2] - b[1] * a[2], a[2] * b[2])
RMul(a, b) == Frac(a[1] * b[1], a[2] * b[2])
\* a / b for b # 0
RDiv(a, b) == Frac(a[1] * b[2], a[2] * b[1])
RLt(a, b) == a[1] * b[2] < b[1] * a[2]
RGt(a, b) == RLt(b, a)
RAbs(a) == << Abs(a[1]), a[2] >>

RECURSIVE RSum(_)
\* Python's sum(list): 0 + list[0] + list[1] + ...
RSum(s) == IF s = << >> THEN Zero ELSE RAdd(RSum(SubSeq(s, 1, Len(s) - 1)), s[Len(s)])

\* ---------------------------------------------------------------------------
\* State
\* ---------------------------------------------------------------------------
VARIABLES
    dataset,          \* Data.dataset[Data.data_name]: category key -> samples
    data_class_name,  \* Data.data_class_name
    self_data_number, \* Data.data_number (the attribute, not train's argument)
    layers,           \* the three layer objects: weights, bias, input_dataset
    params,           \* arguments of train_layers_on_dataset that stay fixed
    data_number,      \* local data_number of train_layers_on_dataset
    i,                \* loop variable of train_layers_on_dataset
    pc,               \* position of the trainer
    cur,              \* layer of the running train call
    epoch,            \* loop variable of train
    learning_rate,    \* local learning_rate of the running train call
    ret,              \* what the last finished train call returned
    fault,            \* exception that ended the run ("none" while running)
    saved,            \* content and state of weights_and_biases.pkl
    last,             \* observation of the last executed epoch of train
    call              \* last direct call of a helper: arguments and outcome

vars == << dataset, data_class_name, self_data_number, layers, params,
           data_number, i, pc, cur, epoch, learning_rate, ret, fault, saved,
           last, call >>

trainerVars == << dataset, data_class_name, self_data_number, layers, params,
                  data_number, i, pc, cur, epoch, learning_rate, ret, fault,
                  saved, last >>

\* ---------------------------------------------------------------------------
\* MachineLearning: the static helpers
\* ---------------------------------------------------------------------------
\* the sign factor with the comparison w >= 0
LassoSign_ge(w) == IF ~RLt(w, Zero) THEN R(1) ELSE R(-1)

\* sign factor of a weight as the source computes it: 1 if w > 0 else -1
LassoSign(w) == IF RGt(w, Zero) THEN R(1) ELSE R(-1)

_get_lasso_regularization(regularization, weights, r, c) ==
    RMul(regularization, LassoSign(weights[r][c]))

_get_ridge_regularization(regularization, weights, r, c) ==
    RMul(regularization, weights[r][c])

\* the step scaled by the input feature of the row (of the column where the
\* input has no such feature)
_calculate_gradient_descent_row(input_dataset, lr, gradient, weights, r, c) ==
    [weights EXCEPT ![r][c] =
        RSub(@, RMul(RMul(lr, gradient),
                     input_dataset[IF r \in DOMAIN input_dataset THEN r ELSE c]))]

\* the new value of weights[r][c]; every other entry is left alone
_calculate_gradient_descent(input_dataset, lr, gradient, weights, r, c) ==
    [weights EXCEPT ![r][c] =
        RSub(@, RMul(RMul(lr, gradient), input_dataset[c]))]

\* the decay without the test `epoch != 0`
_calculate_learning_decay_at0(ep, epochs, lr, learning_decay) ==
    IF epochs \div 4 = 0
    THEN [err |-> "ZeroDivisionError", val |-> lr, decayed |-> FALSE]
    ELSE IF ep % (epochs \div 4) = 0
         THEN [err |-> "none", val |-> RMul(lr, learning_decay), decayed |-> TRUE]
         ELSE [err |-> "none", val |-> lr, decayed |-> FALSE]

\* the decay taken at the nonzero multiples of epochs // 2
_calculate_learning_decay_half(ep, epochs, lr, learning_decay) ==
    IF epochs \div 4 = 0
    THEN [err |-> "ZeroDivisionError", val |-> lr, decayed |-> FALSE]
    ELSE IF ep % (epochs \div 2) = 0 /\ ep # 0
         THEN [err |-> "none", val |-> RMul(lr, learning_decay), decayed |-> TRUE]
         ELSE [err |-> "none", val |-> lr, decayed |-> FALSE]

\* outcome of _calculate_learning_decay: err = "ZeroDivisionError" when the
\* modulo of line 90 divides by epochs // 4 = 0 (evaluated before `epoch != 0`);
\* decayed tells whether line 91 multiplied the rate
_calculate_learning_decay(ep, epochs, lr, learning_decay) ==
    IF epochs \div 4 = 0
    THEN [err |-> "ZeroDivisionError", val |-> lr, decayed |-> FALSE]
    ELSE IF ep % (epochs \div 4) = 0 /\ ep # 0
         THEN [err |-> "none", val |-> RMul(lr, learning_decay), decayed |-> TRUE]
         ELSE [err |-> "none", val |-> lr, decayed |-> FALSE]

\* the loop body with the second, raw step taken unless both flags are set
UpdateEntry_either(weights, input_dataset, a, r, c) ==
    LET term0 == Zero
        term1 == IF a.lasso_regularization
                 THEN RAdd(term0, _get_lasso_regularization(a.regularization, weights, r, c))
                 ELSE term0
        term2 == IF a.ridge_regularization
                 THEN RAdd(term1, _get_ridge_regularization(a.regularization, weights, r, c))
                 ELSE term1
        first == _calculate_gradient_descent(
                     input_dataset, a.learning_rate, RAdd(a.gradient, term2), weights, r, c)
    IN  IF ~a.lasso_regularization \/ ~a.ridge_regularization
        THEN _calculate_gradient_descent(
                 input_dataset, a.learning_rate, a.gradient, first, r, c)
        ELSE first

\* lines 110-121: one pass of the loop body for the entry (r, c); a is the
\* record of update_weights' scalar arguments
UpdateEntry(weights, input_dataset, a, r, c) ==
    LET term0 == Zero
        term1 == IF a.lasso_regularization
                 THEN RAdd(term0, _get_lasso_regularization(a.regularization, weights, r, c))
                 ELSE term0
        term2 == IF a.ridge_regularization
                 THEN RAdd(term1, _get_ridge_regularization(a.regularization, weights, r, c))
                 ELSE term1
        first == _calculate_gradient_descent(
                     input_dataset, a.learning_rate, RAdd(a.gradient, term2), weights, r, c)
    IN  IF ~a.lasso_regularization /\ ~a.ridge_regularization
        THEN _calculate_gradient_descent(
                 input_dataset, a.learning_rate, a.gradient, first, r, c)
        ELSE first

RECURSIVE UpdateLoop(_, _, _, _, _)
\* lines 108-121: the two nested loops from position (r, c) on, row by row.
\* input_dataset[j] of line 77 raises IndexError when the row is longer than
\* the input; the entries updated before that keep their new values.
UpdateLoop(weights, input_dataset, a, r, c) ==
    IF r > Len(weights)
    THEN [err |-> "none", weights |-> weights]
    ELSE IF c > Len(weights[r])
    THEN UpdateLoop(weights, input_dataset, a, r + 1, 1)
    ELSE IF c > Len(input_dataset)
    THEN [err |-> "IndexError", weights |-> weights]
    ELSE UpdateLoop(UpdateEntry(weights, input_dataset, a, r, c), input_dataset, a, r, c + 1)

\* the bias step with the regularization parameter added to the gradient
BiasStep_reg(bias, a) ==
    RSub(bias, RMul(a.learning_rate, RAdd(a.gradient, a.regularization)))

\* line 122: the bias step, reached only when the loops finished
BiasStep(bias, a) == RSub(bias, RMul(a.learning_rate, a.gradient))

\* update_weights(layer, gradient, lasso, ridge, learning_rate, regularization):
\* the layer after the call and the exception that ended it, if any
update_weights(layer, a) ==
    LET loop == UpdateLoop(layer.weights, layer.input_dataset, a, 1, 1)
    IN  IF loop.err # "none"
        THEN [err |-> loop.err, layer |-> [layer EXCEPT !.weights = loop.weights]]
        ELSE [err |-> "none",
              layer |-> [layer EXCEPT !.weights = loop.weights,
                                      !.bias = BiasStep(layer.bias, a)]]

\* ---------------------------------------------------------------------------
\* Data
\* ---------------------------------------------------------------------------
Digits == << "0", "1", "2", "3", "4", "5", "6", "7", "8", "9" >>

RECURSIVE Str(_)
\* Python's str(int): the decimal numeral of n
Str(n) ==
    IF n < 0 THEN "-" \o Str(-n)
    ELSE IF n < 10 THEN Digits[n + 1]
    ELSE Str(n \div 10) \o Digits[(n % 10) + 1]

\* get_data_dict: the samples of category str(data_class_name), numbered from
\* 1 (a sequence is that dictionary); no samples when the category is absent
get_data_dict(ds, class_name) ==
    IF Str(class_name) \in DOMAIN ds THEN ds[Str(class_name)] ELSE << >>

\* the lookup with the samples numbered from 0
get_data_sample_from0(ds, class_name, number) ==
    LET d == get_data_dict(ds, class_name)
    IN  IF number + 1 \in DOMAIN d
        THEN [err |-> "none", val |-> d[number + 1], msg |-> << >>]
        ELSE [err |-> "ValueError", val |-> << >>,
              msg |-> << "data_number", number, "data_class_name", class_name >>]

\* get_data_sample: the sample numbered Data.data_number, or the ValueError
\* of lines 50-53, whose message holds data_number and data_class_name
get_data_sample(ds, class_name, number) ==
    LET d == get_data_dict(ds, class_name)
    IN  IF number \in DOMAIN d
        THEN [err |-> "none", val |-> d[number], msg |-> << >>]
        ELSE [err |-> "ValueError", val |-> << >>,
              msg |-> << "data_number", number, "data_class_name", class_name >>]

\* the target taken as the 0-based position of the sample
get_normalized_target_value_from0(ds, class_name, number) ==
    LET n == Len(get_data_dict(ds, class_name))
        idx == number - 1
    IN  IF idx >= 0 /\ idx < n
        THEN [err |-> "none", val |-> Frac(idx, 10)]
        ELSE IF idx < 0 /\ idx >= -n
        THEN [err |-> "none", val |-> Frac(n + idx, 10)]
        ELSE [err |-> "IndexError", val |-> Zero]

\* get_normalized_target_value: data_dict is the key list [1, ..., n]; Python
\* indexes it with data_number - 1, counting from the end when that is
\* negative, and raises IndexError outside -n .. n - 1
get_normalized_target_value(ds, class_name, number) ==
    LET n == Len(get_data_dict(ds, class_name))
        idx == number - 1
    IN  IF idx >= 0 /\ idx < n
        THEN [err |-> "none", val |-> Frac(idx + 1, 10)]
        ELSE IF idx < 0 /\ idx >= -n
        THEN [err |-> "none", val |-> Frac(n + idx + 1, 10)]
        ELSE [err |-> "IndexError", val |-> Zero]

IsDigit(ch) == \E d \in 0..9 : Digits[d + 1] = ch
DigitValue(ch) == CHOOSE d \in 0..9 : Digits[d + 1] = ch

\* whether float(key) accepts the key: the keys of the data file are decimal
\* numerals; float raises ValueError for a string that is no number
IsNumeral(key) ==
    /\ Len(key) > 0
    /\ \A k \in 1..Len(key) : IsDigit(SubSeq(key, k, k))

RECURSIVE ParseNumeral(_)
\* float(key) of a decimal numeral: its digits read from the left
ParseNumeral(key) ==
    IF Len(key) = 0 THEN 0
    ELSE 10 * ParseNumeral(SubSeq(key, 1, Len(key) - 1))
             + DigitValue(SubSeq(key, Len(key), Len(key)))

\* the lookup without the dictionary: float(value_by_key) / 10 for any key
get_target_value_by_key_any(ds, value_by_key) ==
    IF \E key \in DOMAIN ds : ~IsNumeral(key)
    THEN [err |-> "ValueError", val |-> Zero]
    ELSE [err |-> "none", val |-> Frac(ParseNumeral(value_by_key), 10)]

\* get_target_value_by_key: lines 72-74 build float(key) / 10 for every key
\* of dataset[data_name] (ValueError if one of them is no number), line 75
\* looks value_by_key up with the default 0.0
get_target_value_by_key(ds, value_by_key) ==
    IF \E key \in DOMAIN ds : ~IsNumeral(key)
    THEN [err |-> "ValueError", val |-> Zero]
    ELSE IF value_by_key \in DOMAIN ds
    THEN [err |-> "none", val |-> Frac(ParseNumeral(value_by_key), 10)]
    ELSE [err |-> "none", val |-> Zero]

\* ---------------------------------------------------------------------------
\* Layer (layers.py): the forward computation
\* ---------------------------------------------------------------------------
LayerNames == << "hidden_layer_first", "hidden_layer_second", "output_outer_layer" >>

Activation(name, x) ==
    CASE name = "relu" -> IF RGt(x, Zero) THEN x ELSE Zero
      [] name = "leaky_relu" -> IF RGt(x, Zero) THEN x ELSE RMul(Frac(1, 100), x)
      [] OTHER -> x

RECURSIVE WeightedSum(_, _, _)
\* sum(weights_n[k] * input_dataset[k] for k) over the first k entries
WeightedSum(row, input_dataset, k) ==
    IF k = 0 THEN Zero
    ELSE RAdd(WeightedSum(row, input_dataset, k - 1), RMul(row[k], input_dataset[k]))

Min(a, b) == IF a < b THEN a ELSE b

\* whether every weight row of the layer is as long as its input
RowsMatchInput(layer) ==
    \A n \in DOMAIN layer.weights :
        Len(layer.weights[n]) = Len(layer.input_dataset)

\* whether the forward computation raises: `for k` of the weighted sum is not
\* fixed by the description, so a layer either pairs weights and features
\* (a row shorter than the input is summed over its own length) or, when
\* strict, indexes the row by every feature and raises IndexError past its end
get_layer_dataset_faults(layer) ==
    /\ layer.strict
    /\ \E n \in DOMAIN layer.weights :
          Len(layer.weights[n]) < Len(layer.input_dataset)

\* get_layer_dataset: per neuron, activation(weighted sum + bias)
get_layer_dataset(layer) ==
    [n \in 1..Len(layer.weights) |->
        Activation(layer.activation,
                   RAdd(WeightedSum(layer.weights[n], layer.input_dataset,
                                    Min(Len(layer.weights[n]),
                                        Len(layer.input_dataset))),
                        layer.bias))]

\* ---------------------------------------------------------------------------
\* MachineLearning.train: one pass of the loop body (lines 158-168)
\* ---------------------------------------------------------------------------
\* the relative error as a fraction, without the factor 100
_calculate_error_fraction(predicted, target) ==
    IF target = Zero
    THEN [err |-> "ZeroDivisionError", val |-> Zero]
    ELSE [err |-> "none", val |-> RDiv(RSub(predicted, target), target)]

\* _calculate_error: ((predicted - target) / target) * 100; the division of
\* line 32 raises ZeroDivisionError for a target equal to 0
_calculate_error(predicted, target) ==
    IF target = Zero
    THEN [err |-> "ZeroDivisionError", val |-> Zero]
    ELSE [err |-> "none",
          val |-> RMul(RDiv(RSub(predicted, target), target), R(100))]

\* the progress line with the error taken relative to the prediction
__get_train_visualisation_of_prediction(ep, prediction, target, layer) ==
    IF ep % 100 # 0
    THEN [err |-> "none", printed |-> FALSE]
    ELSE IF _calculate_error(target, prediction).err # "none"
    THEN [err |-> _calculate_error(target, prediction).err, printed |-> FALSE]
    ELSE IF get_layer_dataset_faults(layer)
    THEN [err |-> "IndexError", printed |-> FALSE]
    ELSE [err |-> "none", printed |-> TRUE]

\* __get_train_visualisation (lines 133-137): at every 100th epoch the line
\* is built from _calculate_error(prediction, target) and from the output of
\* the updated layer, then printed; an exception of either ends train
__get_train_visualisation(ep, prediction, target, layer) ==
    IF ep % 100 # 0
    THEN [err |-> "none", printed |-> FALSE]
    ELSE IF _calculate_error(prediction, target).err # "none"
    THEN [err |-> _calculate_error(prediction, target).err, printed |-> FALSE]
    ELSE IF get_layer_dataset_faults(layer)
    THEN [err |-> "IndexError", printed |-> FALSE]
    ELSE [err |-> "none", printed |-> TRUE]

\* __get_train_layers_on_dataset_visualisation (lines 178-181): the summary
\* is built from the output layer's output, then printed
__get_train_layers_on_dataset_visualisation(number, output_outer_layer) ==
    IF get_layer_dataset_faults(output_outer_layer)
    THEN [err |-> "IndexError", printed |-> FALSE]
    ELSE [err |-> "none", printed |-> TRUE]

\* the tolerance check made on the layer's output after the update
tolerance_reached_after_update(fed, updated, target, tolerance) ==
    RLt(RAbs(RSub(RSum(get_layer_dataset(updated)), target)), tolerance)

\* line 167: abs(prediction - target) < error_tolerance, the prediction being
\* that of line 159, computed on the layer as fed and before update_weights
tolerance_reached(fed, updated, target, tolerance) ==
    RLt(RAbs(RSub(RSum(get_layer_dataset(fed)), target)), tolerance)

\* one pass of the loop body of train, with the call of line 165 made
\* (reporting) or left out.  p: the fixed arguments of train; the outcome names
\* the exception that ended the pass (the layer keeps what was assigned before
\* it), the layer, the learning rate after the pass, whether line 166
\* multiplied it and whether line 168 returned
train_pass(reporting, ds, class_name, self_number, layer, number, ep, lr, p) ==
    LET sample == get_data_sample(ds, class_name, self_number)
        fed == [layer EXCEPT !.input_dataset = sample.val]
        prediction == RSum(get_layer_dataset(fed))
        target == get_normalized_target_value(ds, class_name, number)
        gradient == RSub(prediction, target.val)
        upd == update_weights(fed,
                   [gradient |-> gradient,
                    lasso_regularization |-> p.lasso_regularization,
                    ridge_regularization |-> p.ridge_regularization,
                    learning_rate |-> lr,
                    regularization |-> p.regularization])
        vis == IF reporting
               THEN __get_train_visualisation(ep, prediction, target.val, upd.layer)
               ELSE [err |-> "none", printed |-> FALSE]
        decay == _calculate_learning_decay(ep, p.epochs, lr, p.learning_decay)
        converged == tolerance_reached(fed, upd.layer, target.val,
                                       p.error_tolerance)
        obs(pred, tgt, conv) ==
            [prediction |-> pred, target |-> tgt, converged |-> conv,
             targeted |-> target.err = "none"]
    IN  IF sample.err # "none"
        THEN [err |-> sample.err, layer |-> layer, learning_rate |-> lr,
              returned |-> FALSE, fed |-> FALSE, updated |-> FALSE,
              decayed |-> FALSE, reported |-> FALSE,
              obs |-> [prediction |-> Zero, target |-> Zero,
                       converged |-> FALSE, targeted |-> FALSE]]
        ELSE IF get_layer_dataset_faults(fed)
        THEN [err |-> "IndexError", layer |-> fed, learning_rate |-> lr,
              returned |-> FALSE, fed |-> TRUE, updated |-> FALSE,
              decayed |-> FALSE, reported |-> FALSE,
              obs |-> [prediction |-> Zero, target |-> Zero,
                       converged |-> FALSE, targeted |-> FALSE]]
        ELSE IF target.err # "none"
        THEN [err |-> target.err, layer |-> fed, learning_rate |-> lr,
              returned |-> FALSE, fed |-> TRUE, updated |-> FALSE,
              decayed |-> FALSE, reported |-> FALSE,
              obs |-> obs(prediction, Zero, FALSE)]
        ELSE IF upd.err # "none"
        THEN [err |-> upd.err, layer |-> upd.layer, learning_rate |-> lr,
              returned |-> FALSE, fed |-> TRUE, updated |-> FALSE,
              decayed |-> FALSE, reported |-> FALSE,
              obs |-> obs(prediction, target.val, converged)]
        ELSE IF vis.err # "none"
        THEN [err |-> vis.err, layer |-> upd.layer, learning_rate |-> lr,
              returned |-> FALSE, fed |-> TRUE, updated |-> TRUE,
              decayed |-> FALSE, reported |-> FALSE,
              obs |-> obs(prediction, target.val, converged)]
        ELSE IF decay.err # "none"
        THEN [err |-> decay.err, layer |-> upd.layer, learning_rate |-> lr,
              returned |-> FALSE, fed |-> TRUE, updated |-> TRUE,
              decayed |-> FALSE, reported |-> vis.printed,
              obs |-> obs(prediction, target.val, converged)]
        ELSE [err |-> "none", layer |-> upd.layer, learning_rate |-> decay.val,
              returned |-> converged, fed |-> TRUE, updated |-> TRUE,
              decayed |-> decay.decayed, reported |-> vis.printed,
              obs |-> obs(prediction, target.val, converged)]

\* lines 158-168: the pass as train runs it, progress line included
train_epoch(ds, class_name, self_number, layer, number, ep, lr, p) ==
    train_pass(TRUE, ds, class_name, self_number, layer, number, ep, lr, p)

\* ---------------------------------------------------------------------------
\* Direct calls of the helpers, with arguments drawn from small sets
\* ---------------------------------------------------------------------------
\* rates, decays, regularization parameters and gradients of the direct calls
RateVals == { Frac(1, 10), Frac(1, 2) }
DecayVals == { Frac(9, 10), Frac(1, 2) }
RegVals == { Frac(1, 1000), Frac(1, 2) }
GradientVals == { Frac(-1, 2), Zero, Frac(1, 10) }
InputVals == { R(1), R(2) }
BiasVals == { R(1) }

\* all sequences of length n over S
SeqOfLen(S, n) == [1..n -> S]

\* weight rows of length n for the direct calls: the three values in turn,
\* starting at any of them, so that every entry takes every value
WeightCycle == << Frac(-1, 2), Zero, Frac(1, 2) >>
WeightRows(n) == { [k \in 1..n |-> WeightCycle[((k + s) % 3) + 1]] : s \in 0..2 }

NoCall == [op |-> "none"]

CallDecay ==
    /\ call = NoCall
    /\ \E ep \in 0..MaxDecayEpochs, eps \in 0..MaxDecayEpochs,
          lr \in RateVals, d \in DecayVals :
            call' = [op |-> "_calculate_learning_decay",
                     epoch |-> ep, epochs |-> eps, learning_rate |-> lr,
                     learning_decay |-> d,
                     out |-> _calculate_learning_decay(ep, eps, lr, d)]
    /\ UNCHANGED trainerVars

CallLasso ==
    /\ call = NoCall
    /\ \E reg \in RegVals, cols \in 1..MaxInputs :
         \E w \in SeqOfLen(WeightRows(cols), 1), c \in 1..cols :
            call' = [op |-> "_get_lasso_regularization",
                     regularization |-> reg, weights |-> w, i |-> 1, j |-> c,
                     out |-> _get_lasso_regularization(reg, w, 1, c)]
    /\ UNCHANGED trainerVars

CallUpdateWeights ==
    /\ call = NoCall
    /\ \E n \in 1..MaxNeurons, cols \in 1..MaxInputs, k \in 1..MaxInputs :
         \E w \in SeqOfLen(WeightRows(cols), n),
            x \in SeqOfLen(InputVals, k), b \in BiasVals,
            g \in GradientVals, lr \in RateVals, reg \in RegVals,
            lasso \in BOOLEAN, ridge \in BOOLEAN :
            LET layer == [weights |-> w, bias |-> b, input_dataset |-> x]
                a == [gradient |-> g, lasso_regularization |-> lasso,
                      ridge_regularization |-> ridge, learning_rate |-> lr,
                      regularization |-> reg]
            IN  call' = [op |-> "update_weights", layer |-> layer, args |-> a,
                         out |-> update_weights(layer, a)]
    /\ UNCHANGED trainerVars

\* a direct _calculate_gradient_descent call on entry (r, c): line 77 reads
\* input_dataset[j] before it stores, so a column without an input feature
\* raises IndexError and stores nothing; input_dataset is only read
gradient_descent_call(input_dataset, lr, gradient, weights, r, c) ==
    IF c \in DOMAIN input_dataset
    THEN [err |-> "none",
          weights |-> _calculate_gradient_descent(input_dataset, lr, gradient, weights, r, c),
          input_dataset |-> input_dataset]
    ELSE [err |-> "IndexError", weights |-> weights, input_dataset |-> input_dataset]

CallGradientDescent ==
    /\ call = NoCall
    /\ \E n \in 1..MaxNeurons, cols \in 1..MaxInputs, k \in 1..MaxInputs :
         \E w \in SeqOfLen(WeightRows(cols), n), x \in SeqOfLen(InputVals, k),
            g \in GradientVals, lr \in RateVals, r \in 1..n, c \in 1..cols :
            call' = [op |-> "_calculate_gradient_descent",
                     input_dataset |-> x, learning_rate |-> lr, gradient |-> g,
                     weights |-> w, i |-> r, j |-> c,
                     out |-> gradient_descent_call(x, lr, g, w, r, c)]
    /\ UNCHANGED trainerVars

\* predictions and targets of the direct _calculate_error calls
PredictedVals == { R(110), Zero, Frac(3, 10), Frac(-1, 2) }
TargetVals == { R(100), Zero, Frac(1, 10), Frac(-1, 2) }

CallError ==
    /\ call = NoCall
    /\ \E predicted \in PredictedVals, target \in TargetVals :
            call' = [op |-> "_calculate_error",
                     predicted |-> predicted, target |-> target,
                     out |-> _calculate_error(predicted, target)]
    /\ UNCHANGED trainerVars

\* ---------------------------------------------------------------------------
\* MachineLearning.train_layers_on_dataset and the train calls it makes
\* ---------------------------------------------------------------------------
S1 == << R(1), R(0) >>
S2 == << R(0), R(1) >>
S3 == << R(1), R(1) >>

\* Data.dataset['cube'] as loaded from encoded_images.json
Datasets ==
    { ("1" :> << S1, S2 >>) @@ ("2" :> << S3 >>),
      ("1" :> << S1 >>) @@ ("2" :> << S2 >>),
      ("1" :> << S1, S2 >>),
      ("2" :> << S1 >>) }

\* hyperparameters handed to train_layers_on_dataset
\* (whole-numbered rates keep every value of a run a multiple of 1/10 or of
\* 1/100, so the exact arithmetic stays within TLC's integers)
TrainRates == { R(1) }
TrainDecays == { Zero, R(1) }
Tolerances == { Frac(1, 100), R(1) }
TrainRegs == { R(1) }
InitWeightVals == { R(1), R(-1) }
\* data_number handed to train_layers_on_dataset: the first sample, or a
\* number beyond every category of the datasets
StartNumbers == { 1, 3 }

\* a freshly built layer: rows x cols weights, all w, bias 0
MakeLayer(rows, cols, w, activation, input_dataset) ==
    [weights |-> [n \in 1..rows |-> [k \in 1..cols |-> w]],
     bias |-> Zero,
     input_dataset |-> input_dataset,
     activation |-> activation,
     strict |-> FALSE]

\* neuron numbers of the two hidden layers and the kind of forward
\* computation: samples have 2 features, so a first hidden layer of 1 neuron
\* gives the second hidden layer weight rows shorter than a sample
NetworkShapes ==
    { [first |-> 2, second |-> 2, strict |-> FALSE],
      [first |-> 1, second |-> 2, strict |-> FALSE],
      [first |-> 1, second |-> 2, strict |-> TRUE] }

\* the three layers as build_neural_network chains them, each built on the
\* output of the one before: 2 -> first -> second -> 1
MakeNetwork(w1, w2, w3, shape) ==
    LET first == [MakeLayer(shape.first, 2, w1, "relu", S1)
                     EXCEPT !.strict = shape.strict]
        second == [MakeLayer(shape.second, shape.first, w2, "relu",
                             get_layer_dataset(first))
                      EXCEPT !.strict = shape.strict]
        outer == [MakeLayer(1, shape.second, w3, "linear",
                            get_layer_dataset(second))
                     EXCEPT !.strict = shape.strict]
    IN  (LayerNames[1] :> first) @@ (LayerNames[2] :> second) @@ (LayerNames[3] :> outer)

NoReturn == [none |-> TRUE, weights |-> << >>, bias |-> Zero]

\* nothing observed yet in the train call on layer name
NoEpoch(name) ==
    [layer |-> name, started |-> 0, updates |-> 0, decays |-> 0, epoch |-> -1,
     fed |-> FALSE, input_dataset |-> << >>, sample_index |-> 0,
     target_index |-> 0, targeted |-> FALSE, prediction |-> Zero,
     target |-> Zero, converged |-> FALSE, rate |-> Zero,
     updated |-> FALSE, reported |-> FALSE, before |-> << >>, prior |-> 0]

\* nothing observed yet in the next train call, on layer name; prior counts
\* the decay steps of the train calls before it
NextCall(name, observed) ==
    [NoEpoch(name) EXCEPT !.prior = observed.prior + observed.decays]

\* weights_and_biases.pkl before the run: no call of the save yet
NoFile == [calls |-> 0, written |-> FALSE, data |-> << >>, io |-> "none",
           logged |-> "none", object |-> << >>]

\* how open and pickle.dump of lines 17-18 end: both succeed, open raises,
\* or open succeeds (emptying the file) and dump raises
IoOutcomes == { "ok", "open", "dump" }

\* the save with the failure raised to the caller instead of logged
_save_weights_and_biases_raise(weights, biases, io, file) ==
    LET data == [weights |-> weights, biases |-> biases]
    IN  [err |-> IF io = "ok" THEN "none" ELSE "OSError",
         file |-> [calls |-> file.calls + 1,
                   written |-> CASE io = "ok" -> TRUE
                                 [] io = "open" -> file.written
                                 [] OTHER -> FALSE,
                   data |-> CASE io = "ok" -> data
                              [] io = "open" -> file.data
                              [] OTHER -> << >>,
                   io |-> io,
                   logged |-> IF io = "ok" THEN "info" ELSE "none",
                   object |-> data]]

\* _save_weights_and_biases (lines 15-21): `object` is the dictionary of line
\* 15; the file holds it when the dump succeeded; any Exception of open or
\* dump is caught and logged as an error, so the call always returns
_save_weights_and_biases(weights, biases, io, file) ==
    LET data == [weights |-> weights, biases |-> biases]
    IN  [err |-> "none",
         file |-> [calls |-> file.calls + 1,
                   written |-> CASE io = "ok" -> TRUE
                                 [] io = "open" -> file.written
                                 [] OTHER -> FALSE,
                   data |-> CASE io = "ok" -> data
                              [] io = "open" -> file.data
                              [] OTHER -> << >>,
                   io |-> io,
                   logged |-> IF io = "ok" THEN "info" ELSE "error",
                   object |-> data]]

TrainerInit(ds, p, net) ==
    /\ dataset = ds
    /\ data_class_name = 1
    /\ self_data_number = 1
    /\ layers = net
    /\ params = p
    /\ data_number = p.data_number
    /\ i = 0
    /\ pc = "loop"
    /\ cur = LayerNames[1]
    /\ epoch = 0
    /\ learning_rate = p.learning_rate
    /\ ret = NoReturn
    /\ fault = "none"
    /\ saved = NoFile
    /\ last = NoEpoch(LayerNames[1])

Init ==
    /\ \E ds \in Datasets, eps \in 0..MaxEpochs, lr \in TrainRates,
          d \in TrainDecays, tol \in Tolerances, reg \in TrainRegs,
          lasso \in BOOLEAN, ridge \in BOOLEAN,
          w1 \in InitWeightVals, w2 \in InitWeightVals, w3 \in InitWeightVals,
          shape \in NetworkShapes, start \in StartNumbers :
            TrainerInit(ds,
                [data_number |-> start, epochs |-> eps, learning_rate |-> lr,
                 learning_decay |-> d, error_tolerance |-> tol,
                 regularization |-> reg, lasso_regularization |-> lasso,
                 ridge_regularization |-> ridge],
                MakeNetwork(w1, w2, w3, shape))
    /\ call = NoCall

\* line 206 (loop head) and lines 207-208: next sample, first layer's train
BeginSample ==
    /\ pc = "loop"
    /\ i < Cardinality(DOMAIN dataset)
    /\ LET sample == get_data_sample(dataset, data_class_name, self_data_number)
       IN  IF sample.err # "none"
           THEN /\ pc' = "fault"
                /\ fault' = sample.err
                /\ UNCHANGED << layers, cur, epoch, learning_rate, last >>
           ELSE /\ layers' = [layers EXCEPT ![LayerNames[1]].input_dataset = sample.val]
                /\ pc' = "train"
                /\ cur' = LayerNames[1]
                /\ epoch' = 0
                /\ learning_rate' = params.learning_rate
                /\ last' = NextCall(LayerNames[1], last)
                /\ UNCHANGED fault
    /\ UNCHANGED << dataset, data_class_name, self_data_number, params,
                    data_number, i, ret, saved, call >>

\* lines 157-168: one epoch of the running train call
TrainEpoch ==
    /\ pc = "train"
    /\ epoch < params.epochs
    /\ \E o \in { train_epoch(dataset, data_class_name, self_data_number,
                            layers[cur], data_number, epoch, learning_rate, params) } :
           /\ layers' = [layers EXCEPT ![cur] = o.layer]
           /\ last' = [layer |-> cur,
                       started |-> last.started + 1,
                       updates |-> last.updates + (IF o.updated THEN 1 ELSE 0),
                       decays |-> last.decays + (IF o.decayed THEN 1 ELSE 0),
                       epoch |-> epoch,
                       fed |-> o.fed,
                       input_dataset |-> o.layer.input_dataset,
                       sample_index |-> self_data_number,
                       target_index |-> data_number,
                       targeted |-> o.obs.targeted,
                       prediction |-> o.obs.prediction,
                       target |-> o.obs.target,
                       converged |-> o.obs.converged,
                       rate |-> learning_rate,
                       updated |-> o.updated,
                       reported |-> o.reported,
                       before |-> layers[cur],
                       prior |-> last.prior]
           /\ IF o.err # "none"
              THEN /\ pc' = "fault"
                   /\ fault' = o.err
                   /\ UNCHANGED << epoch, learning_rate, ret >>
              ELSE IF o.returned
              THEN /\ pc' = "trained"
                   /\ ret' = [none |-> FALSE, weights |-> o.layer.weights,
                              bias |-> o.layer.bias]
                   /\ learning_rate' = o.learning_rate
                   /\ UNCHANGED << epoch, fault >>
              ELSE /\ epoch' = epoch + 1
                   /\ learning_rate' = o.learning_rate
                   /\ UNCHANGED << pc, ret, fault >>
    /\ UNCHANGED << dataset, data_class_name, self_data_number, params,
                    data_number, i, cur, saved, call >>

\* line 157 with the range exhausted: train falls off its end, returning None
TrainExhausted ==
    /\ pc = "train"
    /\ epoch >= params.epochs
    /\ pc' = "trained"
    /\ ret' = NoReturn
    /\ UNCHANGED << dataset, data_class_name, self_data_number, layers, params,
                    data_number, i, cur, epoch, learning_rate, fault, saved,
                    last, call >>

\* the next train call started with the rate the call before it ended with
NextLayer_carry ==
    /\ pc = "trained"
    /\ cur # LayerNames[3]
    /\ LET next == IF cur = LayerNames[1] THEN LayerNames[2] ELSE LayerNames[3]
       IN  IF get_layer_dataset_faults(layers[cur])
           THEN /\ pc' = "fault"
                /\ fault' = "IndexError"
                /\ UNCHANGED << layers, cur, epoch, learning_rate, last >>
           ELSE /\ layers' = [layers EXCEPT
                                 ![next].input_dataset = get_layer_dataset(layers[cur])]
                /\ cur' = next
                /\ last' = NextCall(next, last)
                /\ pc' = "train"
                /\ epoch' = 0
                /\ UNCHANGED << learning_rate, fault >>
    /\ UNCHANGED << dataset, data_class_name, self_data_number, params,
                    data_number, i, ret, saved, call >>

\* lines 213-214 and 219-220: feed the next layer with the output of the one
\* just trained, start its train call; learning_rate is the argument of
\* train_layers_on_dataset, which no train call assigns
NextLayer ==
    /\ pc = "trained"
    /\ cur # LayerNames[3]
    /\ LET next == IF cur = LayerNames[1] THEN LayerNames[2] ELSE LayerNames[3]
       IN  IF get_layer_dataset_faults(layers[cur])
           THEN /\ pc' = "fault"
                /\ fault' = "IndexError"
                /\ UNCHANGED << layers, cur, epoch, learning_rate, last >>
           ELSE /\ layers' = [layers EXCEPT
                                 ![next].input_dataset = get_layer_dataset(layers[cur])]
                /\ cur' = next
                /\ last' = NextCall(next, last)
                /\ pc' = "train"
                /\ epoch' = 0
                /\ learning_rate' = params.learning_rate
                /\ UNCHANGED fault
    /\ UNCHANGED << dataset, data_class_name, self_data_number, params,
                    data_number, i, ret, saved, call >>

\* lines 225-226: the per-sample summary, then data_number += 1
EndSample ==
    /\ pc = "trained"
    /\ cur = LayerNames[3]
    /\ IF __get_train_layers_on_dataset_visualisation(
              data_number, layers[LayerNames[3]]).err # "none"
       THEN /\ pc' = "fault"
            /\ fault' = "IndexError"
            /\ UNCHANGED << data_number, i >>
       ELSE /\ data_number' = data_number + 1
            /\ i' = i + 1
            /\ pc' = "loop"
            /\ UNCHANGED fault
    /\ UNCHANGED << dataset, data_class_name, self_data_number, layers, params,
                    cur, epoch, learning_rate, ret, saved, last, call >>

\* the save run as a cleanup step, also after an exception ended the loop
Save_on_fault ==
    /\ \/ pc = "loop" /\ i >= Cardinality(DOMAIN dataset)
       \/ pc = "fault" /\ saved.calls = 0
    /\ \E io \in IoOutcomes :
        LET weights == [n \in { LayerNames[k] : k \in 1..3 } |-> layers[n].weights]
            biases == [n \in { LayerNames[k] : k \in 1..3 } |-> layers[n].bias]
            o == _save_weights_and_biases(weights, biases, io, saved)
        IN  saved' = o.file
    /\ pc' = IF pc = "fault" THEN "fault" ELSE "done"
    /\ UNCHANGED << dataset, data_class_name, self_data_number, layers, params,
                    data_number, i, cur, epoch, learning_rate, ret, fault,
                    last, call >>

\* lines 228-236: the two dictionaries over the three layer names, then the
\* call of _save_weights_and_biases, whose exception (if it raised one) would
\* end train_layers_on_dataset
Save ==
    /\ pc = "loop"
    /\ i >= Cardinality(DOMAIN dataset)
    /\ \E io \in IoOutcomes :
        LET weights == [n \in { LayerNames[k] : k \in 1..3 } |-> layers[n].weights]
            biases == [n \in { LayerNames[k] : k \in 1..3 } |-> layers[n].bias]
            o == _save_weights_and_biases(weights, biases, io, saved)
        IN  /\ saved' = o.file
            /\ IF o.err # "none"
               THEN pc' = "fault" /\ fault' = o.err
               ELSE pc' = "done" /\ UNCHANGED fault
    /\ UNCHANGED << dataset, data_class_name, self_data_number, layers, params,
                    data_number, i, cur, epoch, learning_rate, ret,
                    last, call >>

Next ==
    \/ BeginSample
    \/ TrainEpoch
    \/ TrainExhausted
    \/ NextLayer
    \/ EndSample
    \/ Save

Spec == Init /\ [][Next]_vars

\* datasets of the direct Data calls: those of the trainer, one whose active
\* category is present without samples and one with a two-digit category key
FnDatasets ==
    Datasets \cup { ("1" :> << >>) @@ ("10" :> << S1 >>) }

\* values of Data.data_class_name and key arguments of the direct calls
ClassNames == { 1, 2, 3 }
KeyArgs == { "1", "2", "3", "10" }

CallDataSample ==
    /\ call = NoCall
    /\ \E ds \in FnDatasets, c \in ClassNames,
          number \in -MaxDataNumber..MaxDataNumber :
            call' = [op |-> "get_data_sample", dataset |-> ds,
                     data_class_name |-> c, data_number |-> number,
                     out |-> get_data_sample(ds, c, number)]
    /\ UNCHANGED trainerVars

CallNormalizedTarget ==
    /\ call = NoCall
    /\ \E ds \in FnDatasets, c \in ClassNames,
          number \in -MaxDataNumber..MaxDataNumber :
            call' = [op |-> "get_normalized_target_value", dataset |-> ds,
                     data_class_name |-> c, data_number |-> number,
                     out |-> get_normalized_target_value(ds, c, number)]
    /\ UNCHANGED trainerVars

CallTargetByKey ==
    /\ call = NoCall
    /\ \E ds \in FnDatasets, key \in KeyArgs :
            call' = [op |-> "get_target_value_by_key", dataset |-> ds,
                     value_by_key |-> key,
                     out |-> get_target_value_by_key(ds, key)]
    /\ UNCHANGED trainerVars

\* the helpers called directly, the trainer at rest
FnInit ==
    /\ TrainerInit(("1" :> << S1, S2 >>) @@ ("2" :> << S3 >>),
           [data_number |-> 1, epochs |-> 4, learning_rate |-> R(1),
            learning_decay |-> R(1), error_tolerance |-> Frac(1, 100),
            regularization |-> R(1), lasso_regularization |-> FALSE,
            ridge_regularization |-> FALSE],
           MakeNetwork(R(1), R(1), R(1),
                       [first |-> 2, second |-> 2, strict |-> FALSE]))
    /\ call = NoCall

FnNext ==
    \/ CallDecay
    \/ CallLasso
    \/ CallUpdateWeights
    \/ CallGradientDescent
    \/ CallError
    \/ CallDataSample
    \/ CallNormalizedTarget
    \/ CallTargetByKey

FnSpec == FnInit /\ [][FnNext]_vars

\* ---------------------------------------------------------------------------
\* Properties
\* ---------------------------------------------------------------------------
UpdateReturned == call.op = "update_weights" /\ call.out.err = "none"

\* w - learning_rate * g * x, the single gradient step of an entry
Step(w, lr, g, x) == RSub(w, RMul(RMul(lr, g), x))

\* C1: with both flags off, update_weights leaves every entry (i, j) at
\* w_old[i][j] - learning_rate * gradient * input_dataset[j]: the raw gradient
\* step is taken exactly once.
C1_RawGradientOnce ==
    (UpdateReturned /\ ~call.args.lasso_regularization
                    /\ ~call.args.ridge_regularization) =>
        \A r \in DOMAIN call.layer.weights :
            \A c \in DOMAIN call.layer.weights[r] :
                call.out.layer.weights[r][c] =
                    Step(call.layer.weights[r][c], call.args.learning_rate,
                         call.args.gradient, call.layer.input_dataset[c])

\* C6: for epochs >= 4, _calculate_learning_decay returns rate * decay when
\* epoch is a nonzero multiple of epochs // 4 and the rate unchanged otherwise.
C6_DecayAtQuarterMultiples ==
    (call.op = "_calculate_learning_decay" /\ call.epochs >= 4) =>
        LET quarter == call.epochs \div 4
            multiple == \E m \in 1..call.epoch : call.epoch = m * quarter
        IN  /\ call.out.err = "none"
            /\ call.out.val = IF multiple
                              THEN RMul(call.learning_rate, call.learning_decay)
                              ELSE call.learning_rate

\* a call at a decay point whose result differs from the rate handed in
C6_Witness ==
    /\ call.op = "_calculate_learning_decay"
    /\ call.epochs = 8
    /\ call.epoch = 6
    /\ call.out.err = "none"
    /\ call.out.val # call.learning_rate

\* C7: for epochs < 4, _calculate_learning_decay raises nothing and returns
\* the rate unchanged, whatever the epoch.
C7_NoFaultBelowFourEpochs ==
    (call.op = "_calculate_learning_decay" /\ call.epochs < 4) =>
        /\ call.out.err = "none"
        /\ call.out.val = call.learning_rate

LassoWeight == call.weights[call.i][call.j]
Neg(a) == << -a[1], a[2] >>

\* C8 as stated: +regularization for a positive weight, -regularization for
\* a negative weight, +regularization for the weight 0.
C8_LassoZeroPositive ==
    call.op = "_get_lasso_regularization" =>
        call.out = IF RLt(LassoWeight, Zero)
                   THEN Neg(call.regularization)
                   ELSE call.regularization

\* C8 amended: _get_lasso_regularization returns +regularization for a
\* positive weight, -regularization for a negative weight and
\* -regularization for the weight 0.
C8_LassoSign ==
    call.op = "_get_lasso_regularization" =>
        /\ RGt(LassoWeight, Zero) => call.out = call.regularization
        /\ RLt(LassoWeight, Zero) => call.out = Neg(call.regularization)
        /\ LassoWeight = Zero => call.out = Neg(call.regularization)

\* a call on a weight equal to 0
C8_Witness ==
    /\ call.op = "_get_lasso_regularization"
    /\ LassoWeight = Zero
    /\ call.out = Neg(call.regularization)

\* C9: with at least one flag on, update_weights leaves every entry at
\* w - learning_rate * (gradient + L + R) * input_dataset[j], w the entry
\* before the call, L its Lasso term if lasso is on, R = regularization * w
\* if ridge is on.
C9_ElasticNetStep ==
    (UpdateReturned /\ (call.args.lasso_regularization
                        \/ call.args.ridge_regularization)) =>
        \A r \in DOMAIN call.layer.weights :
            \A c \in DOMAIN call.layer.weights[r] :
                LET w == call.layer.weights[r][c]
                    L == IF call.args.lasso_regularization
                         THEN _get_lasso_regularization(
                                  call.args.regularization, call.layer.weights, r, c)
                         ELSE Zero
                    Rg == IF call.args.ridge_regularization
                          THEN RMul(call.args.regularization, w)
                          ELSE Zero
                IN  call.out.layer.weights[r][c] =
                        Step(w, call.args.learning_rate,
                             RAdd(call.args.gradient, RAdd(L, Rg)),
                             call.layer.input_dataset[c])

\* a returned call with exactly one flag on that changed a 2 x 2 layer
C9_Witness ==
    /\ UpdateReturned
    /\ call.args.lasso_regularization
    /\ ~call.args.ridge_regularization
    /\ Len(call.layer.weights) = 2
    /\ Len(call.layer.weights[1]) = 2
    /\ call.args.gradient # Zero
    /\ call.out.layer.weights[2][2] # call.layer.weights[2][2]

\* C10: update_weights lowers the bias by exactly learning_rate * gradient,
\* whatever the flags, the regularization and the number of weights.
C10_BiasStepOnce ==
    UpdateReturned =>
        call.out.layer.bias =
            RSub(call.layer.bias, RMul(call.args.learning_rate, call.args.gradient))

\* a returned call with both flags on and a bias that moved
C10_Witness ==
    /\ UpdateReturned
    /\ call.args.lasso_regularization
    /\ call.args.ridge_regularization
    /\ Len(call.layer.weights) = 2
    /\ call.out.layer.bias # call.layer.bias

\* C2: in every epoch of a train call of train_layers_on_dataset, the first
\* hidden layer is trained on the raw sample, the second on the first's
\* output, the output layer on the second's output.
C2_ChainedTrainingInputs ==
    last.fed =>
        last.input_dataset =
            CASE last.layer = LayerNames[1] ->
                    get_data_sample(dataset, data_class_name, self_data_number).val
              [] last.layer = LayerNames[2] ->
                    get_layer_dataset(layers[LayerNames[1]])
              [] OTHER ->
                    get_layer_dataset(layers[LayerNames[2]])

\* C3: the sample index advances by one per iteration, and in every epoch the
\* sample the layer is refreshed from and the normalized target belong to the
\* same sample index.
C3_SampleAndTargetSameIndex ==
    /\ data_number = params.data_number + i
    /\ (last.fed /\ last.targeted) =>
           /\ last.sample_index = last.target_index
           /\ last.target = Frac(last.sample_index, 10)

\* C4: train returns at the first epoch whose prediction is within the
\* tolerance: no later epoch runs, and the value returned is the layer's
\* (weights, bias) of that moment.
C4_EarlyStopReturnsTuple ==
    last.converged =>
        /\ pc \in { "trained", "loop", "done" }
        /\ ~ret.none
        /\ ret.weights = layers[last.layer].weights
        /\ ret.bias = layers[last.layer].bias

\* C5: a train call in which no epoch's prediction is within the tolerance
\* runs exactly `epochs` epochs, ends, and returns None.
C5_ExhaustedReturnsNone ==
    ~last.converged =>
        /\ pc = "fault" => last.started = 0
        /\ pc = "trained" => (last.started = params.epochs /\ ret.none)

\* C11: a returned _calculate_gradient_descent(input_dataset, learning_rate,
\* gradient, weights, i, j) leaves weights[i][j] at
\* w - learning_rate * gradient * input_dataset[j], the feature of column j,
\* and every other weight entry and input_dataset as they were.
C11_GradientDescentEntry ==
    (call.op = "_calculate_gradient_descent" /\ call.out.err = "none") =>
        /\ DOMAIN call.out.weights = DOMAIN call.weights
        /\ \A r \in DOMAIN call.weights :
            /\ DOMAIN call.out.weights[r] = DOMAIN call.weights[r]
            /\ \A c \in DOMAIN call.weights[r] :
                call.out.weights[r][c] =
                    IF r = call.i /\ c = call.j
                    THEN Step(call.weights[r][c], call.learning_rate,
                              call.gradient, call.input_dataset[c])
                    ELSE call.weights[r][c]
        /\ call.out.input_dataset = call.input_dataset

\* a returned call on an off-diagonal entry of a 2 x 2 matrix whose row and
\* column features differ, and which moved the entry
C11_Witness ==
    /\ call.op = "_calculate_gradient_descent"
    /\ call.out.err = "none"
    /\ Len(call.weights) = 2
    /\ call.i = 2
    /\ call.j = 1
    /\ Len(call.input_dataset) = 2
    /\ call.input_dataset[1] # call.input_dataset[2]
    /\ call.out.weights[2][1] # call.weights[2][1]
    /\ call.out.weights[1] = call.weights[1]

\* C12: _calculate_error(predicted, target) returns the value e with
\* e * target = (predicted - target) * 100 for every target other than 0
\* (10 for predicted 110 and target 100), and raises the division fault
\* instead of returning for target 0.
C12_RelativeErrorOrFault ==
    call.op = "_calculate_error" =>
        /\ call.target # Zero =>
               /\ call.out.err = "none"
               /\ RMul(call.out.val, call.target) =
                      RMul(RSub(call.predicted, call.target), R(100))
        /\ (call.predicted = R(110) /\ call.target = R(100)) =>
               call.out.val = R(10)
        /\ call.target = Zero => call.out.err = "ZeroDivisionError"

\* the call of the test, predicted 110 against target 100, returning 10
C12_Witness ==
    /\ call.op = "_calculate_error"
    /\ call.predicted = R(110)
    /\ call.target = R(100)
    /\ call.out = [err |-> "none", val |-> R(10)]

\* the samples of the active category of a direct Data call, and their number
CallSamples ==
    IF Str(call.data_class_name) \in DOMAIN call.dataset
    THEN call.dataset[Str(call.data_class_name)]
    ELSE << >>
CallSampleCount == Len(CallSamples)

\* C13: get_normalized_target_value(data_number) returns data_number / 10
\* for every data_number in 1..n, n the number of samples of the active
\* category, so every such target is strictly positive.
C13_TargetIsTenthOfIndex ==
    (call.op = "get_normalized_target_value"
        /\ call.data_number \in 1..CallSampleCount) =>
        /\ call.out.err = "none"
        /\ call.out.val = Frac(call.data_number, 10)
        /\ RGt(call.out.val, Zero)

\* the call for the last sample of a category of two samples
C13_Witness ==
    /\ call.op = "get_normalized_target_value"
    /\ CallSampleCount = 2
    /\ call.data_number = 2
    /\ call.out = [err |-> "none", val |-> Frac(1, 5)]

\* C14: get_data_sample raises the error naming data_number and
\* data_class_name whenever the active category has no sample at index
\* data_number (index < 1, index > n, category without entries), and returns
\* the sample stored at that 1-based index otherwise.
C14_SampleOrNamedError ==
    call.op = "get_data_sample" =>
        IF call.data_number \in 1..CallSampleCount
        THEN /\ call.out.err = "none"
             /\ call.out.val = CallSamples[call.data_number]
        ELSE /\ call.out.err = "ValueError"
             /\ call.out.msg = << "data_number", call.data_number,
                                  "data_class_name", call.data_class_name >>

\* a call for index 0 of a category of two samples, ended by the error
C14_Witness ==
    /\ call.op = "get_data_sample"
    /\ CallSampleCount = 2
    /\ call.data_number = 0
    /\ call.out.err = "ValueError"
    /\ call.out.msg = << "data_number", 0, "data_class_name", 1 >>

\* C15: get_normalized_target_value raises for every data_number without a
\* sample in the active category (data_number < 1 or data_number > n): it
\* returns no target for such an index.
C15_TargetFailsOutOfRange ==
    (call.op = "get_normalized_target_value"
        /\ call.data_number \notin 1..CallSampleCount) =>
        call.out.err # "none"

\* C16: get_target_value_by_key(k) returns float(k) / 10 for every key k of
\* dataset[data_name], the number whose numeral k is, and 0.0 without a fault
\* for every key that is absent.
C16_TargetByKeyOrZero ==
    call.op = "get_target_value_by_key" =>
        /\ call.out.err = "none"
        /\ IF call.value_by_key \in DOMAIN call.dataset
           THEN \E n \in 0..10 : /\ Str(n) = call.value_by_key
                                 /\ call.out.val = Frac(n, 10)
           ELSE call.out.val = Zero

\* a call with the two-digit key of the dataset, returning 1.0
C16_Witness ==
    /\ call.op = "get_target_value_by_key"
    /\ call.value_by_key = "10"
    /\ call.value_by_key \in DOMAIN call.dataset
    /\ call.out = [err |-> "none", val |-> R(1)]

\* the three architectural layer names, and the samples of the active category
LayerNameSet == { LayerNames[k] : k \in 1..3 }
ActiveSampleCount == Len(get_data_dict(dataset, data_class_name))

\* C17: the save is invoked exactly once, only after the output-layer
\* training of the last sample of the active category has finished, with a
\* weights and a biases mapping over exactly the three layer names that hold
\* each layer's final weights and bias, written as one object with the keys
\* 'weights' and 'biases'.
C17_SavedOnceAfterLastSample ==
    /\ saved.calls <= 1
    /\ pc = "done" => saved.calls = 1
    /\ saved.calls = 1 =>
        /\ pc = "done"
        /\ cur = LayerNames[3]
        /\ i = ActiveSampleCount
        /\ DOMAIN saved.object = { "weights", "biases" }
        /\ DOMAIN saved.object.weights = LayerNameSet
        /\ DOMAIN saved.object.biases = LayerNameSet
        /\ \A n \in LayerNameSet :
            /\ saved.object.weights[n] = layers[n].weights
            /\ saved.object.biases[n] = layers[n].bias
        /\ saved.written => saved.data = saved.object

\* C18: a save whose open or dump fails is logged as an error and raises
\* nothing: train_layers_on_dataset ends normally, and the three layers hold
\* the weights and biases they were handed to the save with.
C18_FailedSaveSwallowed ==
    (saved.calls > 0 /\ saved.io # "ok") =>
        /\ saved.logged = "error"
        /\ pc = "done"
        /\ fault = "none"
        /\ \A n \in LayerNameSet :
            /\ layers[n].weights = saved.object.weights[n]
            /\ layers[n].bias = saved.object.biases[n]

\* a finished run whose save opened the file and failed in the dump, after
\* training that moved the output layer's weights
C18_Witness ==
    /\ pc = "done"
    /\ saved.calls = 1
    /\ saved.io = "dump"
    /\ ~saved.written
    /\ saved.logged = "error"
    /\ fault = "none"
    /\ params.epochs >= 4
    /\ layers[LayerNames[3]].weights # MakeLayer(1, 2, R(1), "linear", S1).weights
    /\ layers[LayerNames[3]].weights # MakeLayer(1, 2, R(-1), "linear", S1).weights

\* C19: train_layers_on_dataset runs one three-layer iteration per sample of
\* the active category, and the index of every iteration has a sample and a
\* target: no iteration asks for an index beyond the samples.
C19_OneIterationPerSample ==
    /\ i <= ActiveSampleCount
    /\ pc \in { "train", "trained" } => data_number \in 1..ActiveSampleCount
    /\ pc = "done" => i = ActiveSampleCount
    /\ fault \notin { "IndexError", "ValueError" }

\* a train call that ran all its epochs, epochs >= 4, without an early stop
FullRun ==
    /\ pc = "trained"
    /\ params.epochs >= 4
    /\ last.started = params.epochs
    /\ ret.none

\* C20 as stated: across a complete run of train, epochs >= 4 and no early
\* stop, the learning rate is multiplied by learning_decay at most 4 times.
C20_AtMostFourDecays == FullRun => last.decays <= 4

\* C20 amended: across such a run the learning rate is multiplied by
\* learning_decay once per nonzero multiple of epochs // 4 below epochs, that
\* is (epochs - 1) // (epochs // 4) times, which is at most 6 times.
C20_DecayCount ==
    FullRun =>
        /\ last.decays = (params.epochs - 1) \div (params.epochs \div 4)
        /\ last.decays <= 6

\* a complete run of 7 epochs, in which the rate was multiplied 6 times
C20_Witness ==
    /\ FullRun
    /\ params.epochs = 7
    /\ last.decays = 6

\* C21: wherever train_layers_on_dataset updates a layer's weights or
\* computes its output, every weight row of that layer is as long as the
\* layer's input_dataset (the layers being built with chained input sizes).
C21_RowsMatchInputThroughout ==
    /\ last.fed =>
        \A n \in DOMAIN layers[last.layer].weights :
            Len(layers[last.layer].weights[n]) = Len(last.input_dataset)
    /\ pc = "trained" => RowsMatchInput(layers[cur])

\* the pass of train about to run, with and without the progress line
PassAhead(reporting) ==
    train_pass(reporting, dataset, data_class_name, self_data_number,
               layers[cur], data_number, epoch, learning_rate, params)

\* C22: the progress line of train and the per-sample summary change nothing:
\* every pass of train ends with the same exception or return, layer and
\* learning rate as the pass without the reporting call, and the summary
\* raises nothing.
C22_ReportingChangesNothing ==
    /\ (pc = "train" /\ epoch < params.epochs) =>
        \A a \in { PassAhead(TRUE) }, b \in { PassAhead(FALSE) } :
            /\ a.err = b.err
            /\ a.layer = b.layer
            /\ a.learning_rate = b.learning_rate
            /\ a.returned = b.returned
    /\ (pc = "trained" /\ cur = LayerNames[3]) =>
        __get_train_layers_on_dataset_visualisation(
            data_number, layers[LayerNames[3]]).err = "none"

\* a second iteration reached after a summary, the output layer's train call
\* having printed its progress line and stopped early in the same epoch
C22_Witness ==
    /\ i >= 1
    /\ last.layer = LayerNames[3]
    /\ last.reported
    /\ last.epoch = 0
    /\ last.converged
    /\ ~ret.none

\* the update of the last epoch, recomputed from the layer before the epoch
LastUpdate ==
    update_weights([last.before EXCEPT !.input_dataset = last.input_dataset],
        [gradient |-> RSub(last.prediction, last.target),
         lasso_regularization |-> params.lasso_regularization,
         ridge_regularization |-> params.ridge_regularization,
         learning_rate |-> last.rate,
         regularization |-> params.regularization])

\* the ordering of an epoch that reached update_weights: the prediction is
\* that of the layer before the update, and an early stop returns the
\* updated weights and bias
UpdateThenCheck ==
    /\ last.updated =>
        /\ last.prediction =
               RSum(get_layer_dataset(
                   [last.before EXCEPT !.input_dataset = last.input_dataset]))
        /\ \A u \in { LastUpdate.layer } :
            /\ layers[last.layer].weights = u.weights
            /\ layers[last.layer].bias = u.bias
        /\ last.converged =
               RLt(RAbs(RSub(last.prediction, last.target)),
                   params.error_tolerance)
    /\ (last.converged /\ pc \in { "trained", "loop", "done" }) =>
        /\ last.updated
        /\ ret = [none |-> FALSE, weights |-> layers[last.layer].weights,
                  bias |-> layers[last.layer].bias]

\* C23 as stated: the number of update_weights calls always equals the
\* number of epochs started, the update precedes the tolerance check, and an
\* early stop returns the post-update weights.
C23_UpdatesEqualStarted ==
    /\ last.updates = last.started
    /\ UpdateThenCheck

\* C23 amended: the number of update_weights calls equals the number of
\* epochs started, less the one epoch that an exception ended before its
\* update (then train ends with that exception); in every epoch that reaches
\* update_weights the update uses the prediction computed before it and
\* precedes the tolerance check, so an early stop returns the post-update
\* weights.
C23_UpdateBeforeCheck ==
    /\ last.updates =
           last.started - (IF last.started > 0 /\ ~last.updated THEN 1 ELSE 0)
    /\ (last.started > 0 /\ ~last.updated) => pc = "fault"
    /\ UpdateThenCheck

\* an early stop in a later epoch whose update moved the weights: the value
\* returned differs from the weights that produced the converging prediction
C23_Witness ==
    /\ pc = "trained"
    /\ last.converged
    /\ last.started >= 2
    /\ last.updates = last.started
    /\ ~ret.none
    /\ ret.weights # last.before.weights

\* C24: every train call of train_layers_on_dataset begins with the
\* learning_rate handed to train_layers_on_dataset, whatever decay steps the
\* train calls before it applied.
C24_EachCallStartsAtOriginalRate ==
    /\ (pc = "train" /\ epoch = 0) => learning_rate = params.learning_rate
    /\ last.started = 1 => last.rate = params.learning_rate

\* the first epoch of a train call that follows calls whose decay steps had
\* brought their rate down to 0
C24_Witness ==
    /\ last.started = 1
    /\ last.prior >= 3
    /\ params.learning_decay = Zero
    /\ params.learning_rate # Zero
    /\ last.rate = params.learning_rate
    /\ last.layer = LayerNames[2]
    /\ i = 1

\* C25: once a train call (or the sample lookup before it) has raised, the
\* exception ends train_layers_on_dataset: the save is never called and the
\* parameter file is not written.
C25_FaultSkipsSave ==
    fault # "none" =>
        /\ pc = "fault"
        /\ saved.calls = 0
        /\ ~saved.written

\* a run ended by the target lookup of the second sample, after the first
\* sample's training had moved the first hidden layer's weights
C25_Witness ==
    /\ fault = "IndexError"
    /\ pc = "fault"
    /\ i = 1
    /\ saved.calls = 0
    /\ layers[LayerNames[1]].weights[1][1] \notin InitWeightVals

====
